---- MODULE Spec2Model ----
(***************************************************************************)
(* State-machine model of src/Worker.js: a background task executor that   *)
(* receives requests {command, data, id} on a message channel, dispatches  *)
(* them to one of six handlers and posts ready / progress / success /      *)
(* error messages back.                                                    *)
(*                                                                         *)
(* The executor is one JavaScript execution context: the top-level script, *)
(* every message event and every timer callback runs to completion before  *)
(* the next one starts, so each is one atomic action here.                 *)
(*                                                                         *)
(* Encodings of JavaScript values                                          *)
(*   - an id is a string; Undefined stands for a request without id;       *)
(*   - a payload (data) is a record; UndefinedData stands for a request    *)
(*     without data;                                                       *)
(*   - numbers are integers; Infinity is an integer above every finite     *)
(*     value the model computes; a quotient that need not be an integer is *)
(*     kept as a record [num, den]; NegZero stands for the number -0,      *)
(*     which compares equal to 0 and is a different value;                 *)
(*   - the timestamp field of the messages (wall-clock time) is left out.  *)
(***************************************************************************)
EXTENDS Integers, Sequences, FiniteSets, TLC

\* Bounds of the model.
MaxRequests == 2    \* number of requests the host sends
MaxSteps == 2       \* largest finite value of SimulateWork's steps
MaxLength == 30     \* largest dataset length and Fibonacci index of WideSpec
MaxArray == 4       \* largest length of the arrays of SortSpec

VARIABLES
    pc,         \* "load": the script has not run yet; "listening": it has
    requests,   \* the requests delivered so far, in order (e.data of each event)
    out,        \* the outbound message stream (every self.postMessage, in order)
    sender,     \* sender[k]: the number of the request whose handling posted
                \* out[k], 0 for the top-level script (history variable)
    after,      \* after[n]: the data of request n as its listener run leaves it
    intervals,  \* intervals[n]: the setInterval timer request n created, if any
    later       \* the parity of the callback runs that are not recorded

vars == <<pc, requests, after, out, sender, intervals, later>>

----------------------------------------------------------------------------
\* JavaScript values

Undefined == "<undefined>"
UndefinedData == [undefined |-> TRUE]
IsUndefined(data) == "undefined" \in DOMAIN data
Has(data, key) == key \in DOMAIN data
Infinity == 10^9

\* `id || 'unknown'`: the id unless it is falsy (undefined or the empty string).
IdOrUnknown(id) == IF id = Undefined \/ id = "" THEN "unknown" ELSE id

\* What a handler call leaves behind: the messages it posted, whether it
\* threw, and the interval timers it created.
Returned(posted) == [posted |-> posted, thrown |-> FALSE, timers |-> <<>>]
Thrown(posted, error) == [posted |-> posted, thrown |-> TRUE, error |-> error, timers |-> <<>>]

\* The number -0, and the comparisons a < b and a > b of array elements.
NegZero == -(Infinity + 1)
Value(x) == IF x = NegZero THEN 0 ELSE x
Lt(a, b) == Value(a) < Value(b)
Gt(a, b) == Value(a) > Value(b)

Min(a, b) == IF a < b THEN a ELSE b
Max(a, b) == IF a > b THEN a ELSE b

\* Pairs (i, n), n < 130, where the double-precision (i / n) * 100 falls just
\* below the exact product, so that Math.floor gives one less.
FloatLow == {<<29, 50>>, <<29, 100>>, <<57, 100>>, <<58, 100>>}

\* a plausible slip: the share that is left instead of the share that is done
FloorPercentRemaining(i, n) ==
    IF n <= 0 \/ n = Infinity THEN 0 ELSE ((n - i) * 100) \div n

\* Math.floor((i / n) * 100) for integers i >= 0 and n (|n| < 130, or n
\* Infinity, where the quotient is 0).
FloorPercent(i, n) ==
    IF n = 0 THEN (IF i = 0 THEN 0 ELSE Infinity)
    ELSE IF n < 0 THEN (-(i * 100)) \div (-n)
    ELSE IF <<i, n>> \in FloatLow THEN ((i * 100) \div n) - 1
    ELSE (i * 100) \div n

----------------------------------------------------------------------------
\* handleCalculate

RECURSIVE Reduce(_, _, _)
\* numbers.reduce(f, acc) for f in {+, *, max, min}
Reduce(op, numbers, acc) ==
    IF numbers = <<>> THEN acc
    ELSE LET x == Head(numbers)
             next == CASE op = "sum" -> acc + x
                       [] op = "multiply" -> acc * x
                       [] op = "max" -> Max(acc, x)
                       [] op = "min" -> Min(acc, x)
         IN Reduce(op, Tail(numbers), next)

handleCalculate(data, id) ==
    IF IsUndefined(data) THEN Thrown(<<>>, "TypeError")
    ELSE IF data.operation \notin {"sum", "average", "max", "min", "multiply"}
    THEN Thrown(<<>>, "unsupported operation")
    ELSE LET numbers == data.numbers
             result ==
               CASE data.operation = "sum" -> Reduce("sum", numbers, 0)
                 [] data.operation = "average" ->
                      [num |-> Reduce("sum", numbers, 0), den |-> Len(numbers)]
                 [] data.operation = "max" -> Reduce("max", numbers, -Infinity)
                 [] data.operation = "min" -> Reduce("min", numbers, Infinity)
                 [] data.operation = "multiply" -> Reduce("multiply", numbers, 1)
         IN Returned(<<[id |-> id, status |-> "success", command |-> "calculate",
                        result |-> result, operation |-> data.operation]>>)

----------------------------------------------------------------------------
\* handleSimulateWork

DefaultDuration == 3000
DefaultSteps == 100

\* The synchronous part: destructure the payload and create the interval
\* timer; the closure keeps id, steps, duration and currentStep.
handleSimulateWork(data, id) ==
    IF IsUndefined(data) THEN Thrown(<<>>, "TypeError")
    ELSE LET duration == IF Has(data, "duration") THEN data.duration ELSE DefaultDuration
             steps == IF Has(data, "steps") THEN data.steps ELSE DefaultSteps
         IN [posted |-> <<>>, thrown |-> FALSE,
             timers |-> <<[id |-> id, steps |-> steps, duration |-> duration,
                           currentStep |-> 0, cleared |-> FALSE]>>]

\* a plausible slip: the timer is cleared one step late
StepDoneAfter(currentStep, steps) == currentStep > steps

\* line 174: this step is the last
StepDone(currentStep, steps) == currentStep >= steps

\* One run of the interval callback for timer t: the messages it posts.

IntervalPosts(t) ==
    LET currentStep == t.currentStep + 1
        progress == FloorPercent(currentStep, t.steps)
        progressMsg == [id |-> t.id, status |-> "progress", progress |-> progress,
                        currentStep |-> currentStep, totalSteps |-> t.steps]
        successMsg == [id |-> t.id, status |-> "success", command |-> "simulateWork",
                       totalDuration |-> t.duration]
    IN IF StepDone(currentStep, t.steps)
       THEN <<progressMsg, successMsg>>
       ELSE <<progressMsg>>

\* The timer after that run: currentStep++ and, at the end, clearInterval.
IntervalAfter(t) ==
    [t EXCEPT !.currentStep = t.currentStep + 1,
              !.cleared = StepDone(t.currentStep + 1, t.steps)]

----------------------------------------------------------------------------
\* handleProcessData
\* A dataset element is Num(v) or Null (a value without toFixed). The
\* processed values are kept in units of 1/10000, which is what
\* Number(value.toFixed(4)) keeps of them.

Num(v) == [type |-> "number", v |-> v]
Null == [type |-> "null"]
ToNumber(e) == IF e.type = "number" THEN e.v ELSE 0
Abs(x) == IF x < 0 THEN -x ELSE x

\* n / d rounded to the nearest integer, halves away from zero (d > 0)
RoundDiv(n, d) ==
    IF n >= 0 THEN (2 * n + d) \div (2 * d) ELSE -((2 * (-n) + d) \div (2 * d))

RECURSIVE ISqrtBetween(_, _, _)
\* the r with r*r <= x < (r+1)*(r+1), given lo*lo <= x < hi*hi
ISqrtBetween(lo, hi, x) ==
    IF hi - lo <= 1 THEN lo
    ELSE LET mid == (lo + hi) \div 2
         IN IF mid * mid <= x THEN ISqrtBetween(mid, hi, x) ELSE ISqrtBetween(lo, mid, x)

\* Math.sqrt(x) in units of 1/10000, rounded to the nearest
Sqrt4(x) ==
    LET scaled == x * 100000000
        r == ISqrtBetween(0, Min(scaled + 1, 46341), scaled)   \* 46341^2 > 2^31
    IN IF scaled - r * r > r THEN r + 1 ELSE r

\* Math.max(...dataset.map(Math.abs))
MaxAbs(dataset) ==
    IF dataset = <<>> THEN -Infinity
    ELSE LET abs == {Abs(ToNumber(dataset[k])) : k \in DOMAIN dataset}
         IN CHOOSE m \in abs : \A x \in abs : x <= m

\* lines 105-120: the transformed value of element e, in units of 1/10000
Transformed(e, transform, dataset) ==
    CASE transform = "double" -> ToNumber(e) * 2 * 10000
      [] transform = "square" -> ToNumber(e) * ToNumber(e) * 10000
      [] transform = "sqrt" -> Sqrt4(Abs(ToNumber(e)))
      [] transform = "normalize" ->
           LET max == MaxAbs(dataset)
           IN IF max # 0 THEN RoundDiv(ToNumber(e) * 10000, max) ELSE 0
      [] OTHER -> ToNumber(e) * 10000

\* value.toFixed(4) throws when value is not a number: an untransformed null
ToFixedThrows(e, transform) ==
    /\ transform \notin {"double", "square", "sqrt", "normalize"}
    /\ e.type # "number"

\* a plausible slip: progress from the threshold on, not above it
ReportsAtFrom(i, n, threshold) == n >= threshold /\ i % (n \div 10) = 0

\* line 123: the loop reports progress at index i
ReportsAt(i, n, threshold) == n > threshold /\ i % (n \div 10) = 0

\* The indices 0, 1, ..., n - 1 a for loop visits, in order.
Indices(n) == [k \in 1..n |-> k - 1]

\* lines 123-133: the progress message of index i
ProcessProgress(i, dataset, id) ==
    [id |-> id, status |-> "progress", progress |-> FloorPercent(i, Len(dataset)),
     processed |-> i + 1, total |-> Len(dataset)]

\* The for loop of lines 104-134: it runs over the indices before the first
\* one whose toFixed throws (all of them when none does), pushing the
\* transformed value and posting progress where it is due.
ProcessLoop(dataset, transform, id) ==
    LET throwing == {i \in 0..(Len(dataset) - 1) : ToFixedThrows(dataset[i + 1], transform)}
        stop == IF throwing = {} THEN Len(dataset)
                ELSE CHOOSE i \in throwing : \A j \in throwing : i <= j
        reported == SelectSeq(Indices(stop), LAMBDA i : ReportsAt(i, Len(dataset), 10))
    IN [processed |-> [k \in 1..stop |-> Transformed(dataset[k], transform, dataset)],
        posted |-> [k \in 1..Len(reported) |-> ProcessProgress(reported[k], dataset, id)],
        thrown |-> throwing # {}]

handleProcessData(data, id) ==
    IF IsUndefined(data) THEN Thrown(<<>>, "TypeError")
    ELSE LET dataset == data.dataset
             transform == IF Has(data, "transform") THEN data.transform ELSE Undefined
             loop == ProcessLoop(dataset, transform, id)
         IN IF loop.thrown THEN Thrown(loop.posted, "TypeError")
            ELSE Returned(Append(loop.posted,
                    [id |-> id, status |-> "success", command |-> "processData",
                     result |-> loop.processed, originalLength |-> Len(dataset)]))

----------------------------------------------------------------------------
\* handleFibonacci

DefaultN == 20
MaxN == 1000

RECURSIVE fibLoop(_, _, _, _)
\* the loop of lines 201-203
fibLoop(a, b, i, num) == IF i > num THEN b ELSE fibLoop(b, a + b, i + 1, num)

fib(num) == IF num <= 1 THEN num ELSE fibLoop(0, 1, 2, num)

\* lines 212-222: the progress message of index i
FibonacciProgress(i, n, id) ==
    [id |-> id, status |-> "progress", progress |-> FloorPercent(i, n),
     current |-> i, total |-> n]

\* The for loop of lines 208-223: fib(i) is pushed for i = 0..n and progress
\* is posted where it is due.
FibonacciLoop(n, id) ==
    LET reported == SelectSeq(Indices(n + 1), LAMBDA i : ReportsAt(i, n, 10))
    IN [sequence |-> [k \in 1..(n + 1) |-> fib(k - 1)],
        posted |-> [k \in 1..Len(reported) |-> FibonacciProgress(reported[k], n, id)]]

handleFibonacci(data, id) ==
    IF IsUndefined(data) THEN Thrown(<<>>, "TypeError")
    ELSE LET n == IF Has(data, "n") THEN data.n ELSE DefaultN
         IN IF n < 0 \/ n > MaxN THEN Thrown(<<>>, "n out of range")
            ELSE LET loop == FibonacciLoop(n, id)
                 IN Returned(Append(loop.posted,
                        [id |-> id, status |-> "success", command |-> "fibonacci",
                         result |-> loop.sequence, length |-> Len(loop.sequence),
                         nthValue |-> loop.sequence[n + 1]]))

----------------------------------------------------------------------------
\* handlePrimeNumbers

DefaultLimit == 100
MinLimit == 2
MaxLimit == 100000

\* a plausible slip: the inner loop starts one multiple after the square
MarkMultiplesAfterSquare(isPrime, i, limit) ==
    [j \in 0..limit |-> IF j > i * i /\ (j - i * i) % i = 0 THEN FALSE ELSE isPrime[j]]

\* the inner loop of lines 253-255: j = i*i, i*i + i, ... <= limit are struck out
MarkMultiples(isPrime, i, limit) ==
    [j \in 0..limit |-> IF j >= i * i /\ (j - i * i) % i = 0 THEN FALSE ELSE isPrime[j]]

\* lines 259-270: the progress message after index i, if one is due
PrimeProgress(i, limit, primes, id) ==
    IF ReportsAt(i, limit, 100)
    THEN <<[id |-> id, status |-> "progress", progress |-> FloorPercent(i, limit),
            current |-> i, total |-> limit, primesFound |-> Len(primes)]>>
    ELSE <<>>

\* lines 251-270: one iteration of the for loop, on the loop's state
\* st = [isPrime, primes, posted]
SieveStep(st, i, limit, id) ==
    LET found == st.isPrime[i]
        primes == IF found THEN Append(st.primes, i) ELSE st.primes
    IN [isPrime |-> IF found THEN MarkMultiples(st.isPrime, i, limit)
                    ELSE st.isPrime,
        primes |-> primes,
        posted |-> st.posted \o PrimeProgress(i, limit, primes, id)]

RECURSIVE SieveLoop(_, _, _, _, _)
\* the iterations lo..hi of the for loop of lines 250-271, in order (the
\* range is folded by halves to keep the evaluation shallow)
SieveLoop(st, lo, hi, limit, id) ==
    IF lo > hi THEN st
    ELSE IF lo = hi THEN SieveStep(st, lo, limit, id)
    ELSE LET mid == (lo + hi) \div 2
             first == SieveLoop(st, lo, mid, limit, id)
         IN \* the test makes TLC evaluate the first half before the second
            IF Len(first.posted) >= 0
            THEN SieveLoop(first, mid + 1, hi, limit, id)
            ELSE first

\* lines 246-247: new Array(limit + 1).fill(true) with 0 and 1 struck out
NewSieve(limit) == [[j \in 0..limit |-> TRUE] EXCEPT ![0] = FALSE, ![1] = FALSE]

\* a plausible slip: the range of limit is tested from above only
handlePrimeNumbersAnyLow(data, id) ==
    IF IsUndefined(data) THEN Thrown(<<>>, "TypeError")
    ELSE LET limit == IF Has(data, "limit") THEN data.limit ELSE DefaultLimit
         IN IF limit > MaxLimit THEN Thrown(<<>>, "limit out of range")
            ELSE LET st == SieveLoop([isPrime |-> [j \in 0..limit |-> j >= 2],
                                      primes |-> <<>>, posted |-> <<>>],
                                     2, limit, limit, id)
                 IN Returned(Append(st.posted,
                        [id |-> id, status |-> "success", command |-> "primeNumbers",
                         result |-> st.primes, count |-> Len(st.primes),
                         limit |-> limit]))

handlePrimeNumbers(data, id) ==
    IF IsUndefined(data) THEN Thrown(<<>>, "TypeError")
    ELSE LET limit == IF Has(data, "limit") THEN data.limit ELSE DefaultLimit
         IN IF limit < MinLimit \/ limit > MaxLimit THEN Thrown(<<>>, "limit out of range")
            ELSE LET st == SieveLoop([isPrime |-> NewSieve(limit), primes |-> <<>>,
                                      posted |-> <<>>], 2, limit, limit, id)
                 IN Returned(Append(st.posted,
                        [id |-> id, status |-> "success", command |-> "primeNumbers",
                         result |-> st.primes, count |-> Len(st.primes),
                         limit |-> limit]))

----------------------------------------------------------------------------
\* The sorting algorithms

RECURSIVE quickSortOnePivot(_)
\* a plausible slip: the pivot alone where the equal bucket belongs
quickSortOnePivot(arr) ==
    IF Len(arr) <= 1 THEN arr
    ELSE LET pivot == arr[(Len(arr) \div 2) + 1]
             left == SelectSeq(arr, LAMBDA element : Lt(element, pivot))
             right == SelectSeq(arr, LAMBDA element : Gt(element, pivot))
         IN quickSortOnePivot(left) \o <<pivot>> \o quickSortOnePivot(right)

RECURSIVE quickSort(_)
quickSort(arr) ==
    IF Len(arr) <= 1 THEN arr
    ELSE LET pivot == arr[(Len(arr) \div 2) + 1]
             left == SelectSeq(arr, LAMBDA element : Lt(element, pivot))
             right == SelectSeq(arr, LAMBDA element : Gt(element, pivot))
             equal == SelectSeq(arr, LAMBDA element :
                                       ~Lt(element, pivot) /\ ~Gt(element, pivot))
         IN quickSort(left) \o equal \o quickSort(right)

RECURSIVE mergeLoopLeftFirst(_, _, _, _, _)
\* a plausible slip: on a tie the left element is taken first
mergeLoopLeftFirst(left, right, i, j, result) ==
    IF i < Len(left) /\ j < Len(right)
    THEN IF ~Lt(right[j + 1], left[i + 1])
         THEN mergeLoopLeftFirst(left, right, i + 1, j, Append(result, left[i + 1]))
         ELSE mergeLoopLeftFirst(left, right, i, j + 1, Append(result, right[j + 1]))
    ELSE result \o SubSeq(left, i + 1, Len(left)) \o SubSeq(right, j + 1, Len(right))

RECURSIVE mergeLoop(_, _, _, _, _)
\* the while loop of lines 366-374 and the concatenation of line 376
mergeLoop(left, right, i, j, result) ==
    IF i < Len(left) /\ j < Len(right)
    THEN IF Lt(left[i + 1], right[j + 1])
         THEN mergeLoop(left, right, i + 1, j, Append(result, left[i + 1]))
         ELSE mergeLoop(left, right, i, j + 1, Append(result, right[j + 1]))
    ELSE result \o SubSeq(left, i + 1, Len(left)) \o SubSeq(right, j + 1, Len(right))

merge(left, right) == mergeLoop(left, right, 0, 0, <<>>)

RECURSIVE mergeSort(_)
mergeSort(arr) ==
    IF Len(arr) <= 1 THEN arr
    ELSE LET mid == Len(arr) \div 2
             left == mergeSort(SubSeq(arr, 1, mid))
             right == mergeSort(SubSeq(arr, mid + 1, Len(arr)))
         IN merge(left, right)

\* line 385: swap arr[j] and arr[j + 1] (0-based j)
Swap(arr, j) == [arr EXCEPT ![j + 1] = arr[j + 2], ![j + 2] = arr[j + 1]]

RECURSIVE bubbleLoop(_, _, _)
\* the nested loops of lines 382-388 from (i, j) on
bubbleLoop(arr, i, j) ==
    LET n == Len(arr)
    IN IF ~(i < n - 1) THEN arr
       ELSE IF ~(j < n - i - 1) THEN bubbleLoop(arr, i + 1, 0)
       ELSE bubbleLoop(IF Gt(arr[j + 1], arr[j + 2]) THEN Swap(arr, j) ELSE arr, i, j + 1)

bubbleSort(arr) == bubbleLoop(arr, 0, 0)

RECURSIVE nativeSort(_)
\* [...array].sort((a, b) => a - b): the ascending, stable arrangement
nativeSort(arr) ==
    IF arr = <<>> THEN <<>>
    ELSE LET rest == nativeSort(Tail(arr))
             x == Head(arr)
         IN SelectSeq(rest, LAMBDA y : Lt(y, x)) \o <<x>> \o SelectSeq(rest, LAMBDA y : ~Lt(y, x))

----------------------------------------------------------------------------
\* handleSortArray (the duration field, wall-clock time, is left out)

\* a plausible slip: no copy, the algorithm is given the payload's array itself
SpreadAlias(source) == source

\* [...array]: a new array object, filled with the elements of the source
SpreadTarget(source) == "copy"

handleSortArray(data, id) ==
    IF IsUndefined(data) THEN Thrown(<<>>, "TypeError")
    ELSE IF ~Has(data, "array") THEN Thrown(<<>>, "not an array")
    ELSE LET array == data.array
             algorithm == IF Has(data, "algorithm") THEN data.algorithm ELSE "quick"
             \* the array objects of the call: the payload's array and the
             \* one the algorithm is given
             arr == SpreadTarget("array")
             objects == [[array |-> array, copy |-> <<>>] EXCEPT ![arr] = array]
             sortedArray ==
               CASE algorithm = "quick" -> quickSort(objects[arr])
                 [] algorithm = "merge" -> mergeSort(objects[arr])
                 [] algorithm = "bubble" -> bubbleSort(objects[arr])
                 [] OTHER -> nativeSort(objects[arr])
             \* bubbleSort and Array.prototype.sort rearrange the array they
             \* are given and return it; quickSort and mergeSort only read it
             sorted == IF algorithm \in {"quick", "merge"} THEN objects
                       ELSE [objects EXCEPT ![arr] = sortedArray]
         IN [posted |-> <<[id |-> id, status |-> "success", command |-> "sortArray",
                           result |-> sortedArray, algorithm |-> algorithm,
                           originalLength |-> Len(sorted.array)]>>,
             thrown |-> FALSE, timers |-> <<>>, array |-> sorted.array]

----------------------------------------------------------------------------
\* The message listener (lines 7-53)

Commands == {"calculate", "processData", "simulateWork", "fibonacci",
             "primeNumbers", "sortArray"}

\* the switch of lines 11-43
Dispatch(command, data, id) ==
    CASE command = "calculate" -> handleCalculate(data, id)
      [] command = "processData" -> handleProcessData(data, id)
      [] command = "simulateWork" -> handleSimulateWork(data, id)
      [] command = "fibonacci" -> handleFibonacci(data, id)
      [] command = "primeNumbers" -> handlePrimeNumbers(data, id)
      [] command = "sortArray" -> handleSortArray(data, id)
      [] OTHER -> Returned(<<[id |-> IdOrUnknown(id), status |-> "error",
                              error |-> "unknown command"]>>)

\* the catch clause of lines 44-52
Caught(error, id) == <<[id |-> IdOrUnknown(id), status |-> "error", error |-> error]>>

\* everything one message event posts, the timers it creates, and e.data as
\* it is when the listener returns
Listener(e) ==
    LET r == Dispatch(e.command, e.data, e.id)
    IN [posted |-> IF r.thrown THEN r.posted \o Caught(r.error, e.id) ELSE r.posted,
        timers |-> r.timers,
        data |-> IF Has(r, "array") THEN [e.data EXCEPT !.array = r.array] ELSE e.data]

\* a plausible slip: another id on the ready message
ReadyMessageOtherId == [id |-> "ready", status |-> "ready", supportedCommands |-> <<>>]

\* the message the script posts when it has loaded (lines 393-399)
ReadyMessage ==
    [id |-> "init", status |-> "ready",
     supportedCommands |-> <<"calculate", "processData", "simulateWork",
                             "fibonacci", "primeNumbers", "sortArray">>]

----------------------------------------------------------------------------
\* The requests the host sends

Ids == {"a", "", "unknown"}
\* ... and a request without id
WideIds == Ids \cup {Undefined}

\* the dataset 1, 2, ..., len
Dataset(len) == [i \in 1..len |-> Num(i)]
\* the same with null as its last element
DatasetNull(len) == [i \in 1..len |-> IF i = len THEN Null ELSE Num(i)]

Payloads(command) ==
    CASE command = "calculate" ->
           {[operation |-> "sum", numbers |-> <<3, 1, 2>>]}
      [] command = "processData" ->
           {[dataset |-> Dataset(23), transform |-> "square"],
            [dataset |-> DatasetNull(11)]}
      [] command = "simulateWork" ->
           {[duration |-> DefaultDuration, steps |-> s] :
               s \in {0, MaxSteps, Infinity}}
      [] command = "fibonacci" -> {[n |-> 11]}
      [] command = "primeNumbers" -> {[limit |-> 101]}
      [] command = "sortArray" ->
           {[array |-> <<3, 1, 2, 1>>, algorithm |-> "merge"], [algorithm |-> "quick"]}
      [] OTHER -> {UndefinedData}

\* A wider choice of payloads, for a single request.
WidePayloads(command) ==
    {UndefinedData} \cup
    CASE command = "calculate" ->
           {[operation |-> op, numbers |-> ns] :
               op \in {"sum", "average", "max", "min", "multiply", "power"},
               ns \in {<<>>, <<3, 1, 2>>}}
      [] command = "processData" ->
           {[dataset |-> Dataset(len), transform |-> t] :
               len \in 0..MaxLength, t \in {"double", "normalize"}}
           \cup {[dataset |-> [i \in 1..12 |-> Num(i - 4)], transform |-> t] :
                    t \in {"square", "sqrt", "normalize"}}
           \cup {[dataset |-> DatasetNull(len)] : len \in 1..MaxLength}
           \* the lengths at which FloatLow has pairs
           \cup {[dataset |-> Dataset(len), transform |-> "double"] : len \in {50, 100}}
      [] command = "simulateWork" ->
           {[duration |-> DefaultDuration, steps |-> s] :
               s \in (-2)..(MaxSteps + 1) \cup {Infinity}}
      [] command = "fibonacci" ->
           {[n |-> n] : n \in (-1)..MaxLength} \cup {[n |-> MaxN + 1], [other |-> 0]}
      [] command = "primeNumbers" ->
           {[limit |-> l] : l \in (MinLimit - 1)..12 \cup 100..(100 + MaxLength)}
           \cup {[limit |-> MaxLimit + 1], [other |-> 0]}
      [] command = "sortArray" ->
           {[array |-> arr, algorithm |-> a] :
               arr \in {<<>>, <<2, 1>>, <<3, 1, 2, 1>>},
               a \in {"quick", "merge", "bubble", "native"}}
           \cup {[array |-> <<2, 1>>], [algorithm |-> "quick"]}
      [] OTHER -> {[n |-> 1]}

----------------------------------------------------------------------------
\* The state machine

Init ==
    /\ pc = "load"
    /\ requests = <<>>
    /\ after = <<>>
    /\ out = <<>>
    /\ sender = <<>>
    /\ intervals = <<>>
    /\ later = 0

\* k copies of n
Repeat(n, k) == [i \in 1..k |-> n]

\* The top-level script runs: the listener is registered and ready is posted.
Startup ==
    /\ pc = "load"
    /\ pc' = "listening"
    /\ out' = Append(out, ReadyMessage)
    /\ sender' = Append(sender, 0)
    /\ UNCHANGED <<requests, after, intervals, later>>

\* a plausible slip: a request is handled before the script has posted ready
ReceiveBeforeReady(e) ==
    /\ Len(requests) < MaxRequests
    /\ \A k \in DOMAIN requests : requests[k].id # e.id
    /\ out' = out \o Listener(e).posted
    /\ sender' = sender \o Repeat(Len(requests) + 1, Len(Listener(e).posted))
    /\ intervals' = Append(intervals, Listener(e).timers)
    /\ requests' = Append(requests, e)
    /\ after' = Append(after, Listener(e).data)
    /\ UNCHANGED <<pc, later>>

\* a plausible slip: an executor that is dead after its first error: later
\* requests are delivered and nothing is done for them
ReceiveDeadAfterError(e) ==
    /\ pc = "listening"
    /\ Len(requests) < MaxRequests
    /\ \A k \in DOMAIN requests : requests[k].id # e.id
    /\ LET dead == \E k \in DOMAIN out : out[k].status = "error"
           r == IF dead THEN [posted |-> <<>>, timers |-> <<>>, data |-> e.data]
                ELSE Listener(e)
       IN /\ out' = out \o r.posted
          /\ sender' = sender \o Repeat(Len(requests) + 1, Len(r.posted))
          /\ intervals' = Append(intervals, r.timers)
          /\ after' = Append(after, r.data)
    /\ requests' = Append(requests, e)
    /\ UNCHANGED <<pc, later>>

\* the timers whose callback is waiting to run
Pending == {n \in DOMAIN intervals : intervals[n] # <<>> /\ ~intervals[n][1].cleared}

\* a plausible slip: a handler that yields to a waiting timer callback before
\* it posts its last message
ReceiveYielding(e) ==
    /\ pc = "listening"
    /\ Len(requests) < MaxRequests
    /\ \A k \in DOMAIN requests : requests[k].id # e.id
    /\ LET r == Listener(e)
           n == Len(requests) + 1
       IN IF Pending = {} \/ Len(r.posted) < 2
          THEN /\ out' = out \o r.posted
               /\ sender' = sender \o Repeat(n, Len(r.posted))
               /\ intervals' = Append(intervals, r.timers)
          ELSE LET m == CHOOSE m \in Pending : TRUE
                   ticked == IntervalPosts(intervals[m][1])
                   front == SubSeq(r.posted, 1, Len(r.posted) - 1)
               IN /\ out' = out \o front \o ticked \o <<r.posted[Len(r.posted)]>>
                  /\ sender' = sender \o Repeat(n, Len(front))
                                       \o Repeat(m, Len(ticked)) \o <<n>>
                  /\ intervals' = Append([intervals EXCEPT
                                            ![m] = <<IntervalAfter(intervals[m][1])>>],
                                         r.timers)
    /\ requests' = Append(requests, e)
    /\ after' = Append(after, Listener(e).data)
    /\ UNCHANGED <<pc, later>>

\* The host's request e, with an id no earlier request has, is delivered and
\* the listener runs to completion.
Receive(e) ==
    /\ pc = "listening"
    /\ Len(requests) < MaxRequests
    /\ \A k \in DOMAIN requests : requests[k].id # e.id
    /\ LET r == Listener(e)
       IN /\ out' = out \o r.posted
          /\ sender' = sender \o Repeat(Len(requests) + 1, Len(r.posted))
          /\ intervals' = Append(intervals, r.timers)
          /\ after' = Append(after, r.data)
    /\ requests' = Append(requests, e)
    /\ UNCHANGED <<pc, later>>

\* No currentStep reaches steps: the test of line 174 grows with currentStep,
\* so it is enough that the largest finite count fails it.
NeverDone(steps) == ~StepDone(Infinity - 1, steps)

\* The runs of timer t's callback that are recorded in full. A timer with a
\* finite steps is cleared within them; of a timer that is never cleared,
\* whose runs all post progress 0, the first run is recorded.
Recorded(t) == IF NeverDone(t.steps) THEN 1 ELSE MaxSteps + 1

\* a plausible slip: one intervalId shared by all requests, so that
\* clearInterval stops the timer created last
TickSharedHandle(n) ==
    /\ n \in DOMAIN intervals
    /\ intervals[n] # <<>>
    /\ ~intervals[n][1].cleared
    /\ intervals[n][1].currentStep < Recorded(intervals[n][1])
    /\ LET t == intervals[n][1]
           posted == IntervalPosts(t)
           last == CHOOSE m \in DOMAIN intervals :
                      /\ intervals[m] # <<>>
                      /\ \A k \in DOMAIN intervals : intervals[k] # <<>> => k <= m
           stepped == [intervals EXCEPT ![n] = <<[t EXCEPT !.currentStep = t.currentStep + 1]>>]
       IN /\ out' = out \o posted
          /\ sender' = sender \o Repeat(n, Len(posted))
          /\ intervals' = IF StepDone(t.currentStep + 1, t.steps)
                          THEN [stepped EXCEPT ![last] = <<[stepped[last][1] EXCEPT !.cleared = TRUE]>>]
                          ELSE stepped
    /\ UNCHANGED <<pc, requests, after, later>>

\* The interval timer of request n fires and its callback runs to completion.
TickRecorded(n) ==
    /\ n \in DOMAIN intervals
    /\ intervals[n] # <<>>
    /\ ~intervals[n][1].cleared
    /\ intervals[n][1].currentStep < Recorded(intervals[n][1])
    /\ LET t == intervals[n][1]
           posted == IntervalPosts(t)
       IN /\ out' = out \o posted
          /\ sender' = sender \o Repeat(n, Len(posted))
          /\ intervals' = [intervals EXCEPT ![n] = <<IntervalAfter(t)>>]
    /\ UNCHANGED <<pc, requests, after, later>>

\* A timer that is never cleared keeps firing and posting progress. Of the
\* runs after the recorded ones only the parity is kept.
TickLater(n) ==
    /\ n \in DOMAIN intervals
    /\ intervals[n] # <<>>
    /\ ~intervals[n][1].cleared
    /\ intervals[n][1].currentStep >= Recorded(intervals[n][1])
    /\ NeverDone(intervals[n][1].steps)
    /\ later' = 1 - later
    /\ UNCHANGED <<pc, requests, after, out, sender, intervals>>

Tick(n) == TickRecorded(n) \/ TickLater(n)

\* any request the model knows, of a supported or an unsupported command
ReceiveAny ==
    \E command \in Commands \cup {"bogus"}, id \in Ids :
        \E data \in Payloads(command) :
            Receive([data |-> data, id |-> id, command |-> command])

TimerFires == \E n \in 1..MaxRequests : Tick(n)

Next == Startup \/ ReceiveAny \/ TimerFires

Spec == Init /\ [][Next]_vars

\* One request, drawn from the wider payloads, and its timer.
ReceiveWide ==
    /\ requests = <<>>
    /\ \E command \in Commands \cup {"bogus"}, id \in WideIds :
          \E data \in WidePayloads(command) :
              Receive([data |-> data, id |-> id, command |-> command])

NextWide == Startup \/ ReceiveWide \/ TimerFires

WideSpec == Init /\ [][NextWide]_vars

\* One SortArray request, with any array of at most MaxArray numbers drawn
\* from SortValues and any algorithm ("native" is not one of the three names
\* and takes the fallback).
SortValues == {-1, 0, NegZero, 1}
Arrays == UNION {[1..len -> SortValues] : len \in 0..MaxArray}
Algorithms == {"quick", "merge", "bubble", "native"}

ReceiveSort ==
    /\ requests = <<>>
    /\ \E array \in Arrays, algorithm \in Algorithms :
          Receive([data |-> [array |-> array, algorithm |-> algorithm],
                   id |-> "a", command |-> "sortArray"])

NextSort == Startup \/ ReceiveSort

SortSpec == Init /\ [][NextSort]_vars

\* Timers of the same context keep firing: a pending interval callback is
\* eventually run.
FairSpec == Spec /\ \A n \in 1..MaxRequests : WF_vars(Tick(n))

----------------------------------------------------------------------------
\* Properties

IsTerminal(m) == m.status \in {"success", "error"}
\* the positions in out of the messages posted for request n
MessagesOf(n) == {k \in DOMAIN out : sender[k] = n}
\* request n made its handler throw
Failed(n) == Dispatch(requests[n].command, requests[n].data, requests[n].id).thrown
\* request n created an interval timer
HasTimer(n) == n \in DOMAIN intervals /\ intervals[n] # <<>>

\* C1: with pairwise distinct request ids (Receive admits no others), the
\* outbound stream never holds two terminal messages (success or error)
\* with the same id.
C1_NoTwoTerminalsWithOneId ==
    \A j, k \in DOMAIN out :
        (j < k /\ IsTerminal(out[j]) /\ IsTerminal(out[k])) => out[j].id # out[k].id

\* C2: once a terminal message with some id has been posted, no later
\* message (progress, success or error) carries that id.
C2_NothingAfterTerminal ==
    \A j, k \in DOMAIN out :
        (j < k /\ IsTerminal(out[j]) /\ out[k].status # "ready") => out[k].id # out[j].id

\* C3: every progress message carries a progress value in 0..100.
C3_ProgressInRange ==
    \A k \in DOMAIN out : out[k].status = "progress" => out[k].progress \in 0..100

\* C4: the progress values posted with one id never decrease along the
\* outbound stream.
C4_ProgressNonDecreasing ==
    \A j, k \in DOMAIN out :
        (j < k /\ out[j].status = "progress" /\ out[k].status = "progress"
               /\ out[j].id = out[k].id)
        => out[j].progress <= out[k].progress

\* C4 witness: one id has progress messages with growing values.
C4_Witness ==
    \E j, k \in DOMAIN out :
        /\ j < k /\ out[j].status = "progress" /\ out[k].status = "progress"
        /\ out[j].id = out[k].id /\ out[j].progress < out[k].progress

\* C5: a request of an unsupported command gets exactly one response, an
\* error carrying the request's id (the fallback only if the id is absent).
C5_UnknownCommandOneErrorWithItsId ==
    \A n \in DOMAIN requests :
        requests[n].command \notin Commands =>
            /\ Cardinality(MessagesOf(n)) = 1
            /\ \A k \in MessagesOf(n) :
                  /\ out[k].status = "error"
                  /\ out[k].id = IF requests[n].id = Undefined THEN "unknown"
                                 ELSE requests[n].id

\* C6: a request whose handler throws gets exactly one error response, with
\* the request's id, and no success response.
C6_FailureOneErrorWithItsId ==
    \A n \in DOMAIN requests :
        Failed(n) =>
            /\ Cardinality({k \in MessagesOf(n) : out[k].status = "error"}) = 1
            /\ \A k \in MessagesOf(n) :
                  /\ out[k].status # "success"
                  /\ out[k].status = "error" => out[k].id = requests[n].id

\* C7: every response posted while handling a request carries the id given
\* in that request.
C7_ResponsesCarryRequestId ==
    \A k \in DOMAIN out : sender[k] # 0 => out[k].id = requests[sender[k]].id

\* C8: ready is posted exactly once, as the first outbound message, and no
\* request is dispatched before it.
C8_ReadyFirstAndOnce ==
    /\ pc = "load" => (out = <<>> /\ requests = <<>>)
    /\ pc = "listening" =>
          /\ out # <<>> /\ out[1].status = "ready"
          /\ \A k \in DOMAIN out : k > 1 => out[k].status # "ready"

\* C8 witness: requests have been handled and answered after ready.
C8_Witness ==
    /\ Len(requests) >= 1 /\ Len(out) >= 2
    /\ out[1].status = "ready" /\ IsTerminal(out[Len(out)])

\* C9 as stated: the ready message carries the id "ready-token".
C9_ReadyIdIsReadyToken ==
    \A k \in DOMAIN out : out[k].status = "ready" => out[k].id = "ready-token"

\* C9 amended: the ready message carries the id "init".
C9_ReadyIdIsInit ==
    \A k \in DOMAIN out : out[k].status = "ready" => out[k].id = "init"

\* C9 witness: the ready message has been posted.
C9_Witness == \E k \in DOMAIN out : out[k].status = "ready"

\* C10: a dispatched SimulateWork request runs to completion: its success
\* message is eventually posted and its timer cleared.
C10_SimulateWorkCompletes ==
    \A n \in 1..MaxRequests :
        HasTimer(n) ~>
            /\ HasTimer(n) /\ intervals[n][1].cleared
            /\ \E k \in MessagesOf(n) :
                  out[k].status = "success" /\ out[k].id = requests[n].id

\* the commands whose handler is one synchronous call
Synchronous == Commands \ {"simulateWork"}

\* C11: the messages of a request of a synchronous handler (its progress
\* messages and its terminal message) are contiguous in the outbound
\* stream: no message of another request and no timer step lies between them.
C11_SynchronousMessagesContiguous ==
    \A n \in DOMAIN requests :
        requests[n].command \in Synchronous =>
            \* at most one of its messages does not follow another of them
            Cardinality({k \in MessagesOf(n) : k - 1 \notin MessagesOf(n)}) <= 1

\* C11 witness: a synchronous request posted several messages while a timer
\* of an earlier request was in flight, with steps posted before and after.
C11_Witness ==
    \E n \in DOMAIN requests, m \in DOMAIN requests :
        /\ requests[n].command \in Synchronous
        /\ requests[m].command = "simulateWork"
        /\ Cardinality(MessagesOf(n)) >= 2
        /\ \E j, l \in MessagesOf(m), k \in MessagesOf(n) : j < k /\ k < l

\* the positions in out of the messages of request n with the given status
StatusOf(n, status) == {k \in MessagesOf(n) : out[k].status = status}

\* C12: every SimulateWork request in flight has its own counter and timer:
\* the progress messages posted for it are exactly the steps its own timer
\* has run, each with its own id and totalSteps; it has one success exactly
\* when its own timer is cleared; and for a steps >= 1 its timer is cleared
\* exactly when its own counter has reached its own steps, whatever the
\* other timers have done.
C12_TimersAreIndependent ==
    \A n \in DOMAIN requests :
        HasTimer(n) =>
            LET t == intervals[n][1]
                progress == StatusOf(n, "progress")
            IN /\ Cardinality(progress) = t.currentStep
               /\ {out[k].currentStep : k \in progress} = 1..t.currentStep
               /\ \A k \in progress :
                     out[k].totalSteps = t.steps /\ out[k].id = requests[n].id
               /\ Cardinality(StatusOf(n, "success")) = IF t.cleared THEN 1 ELSE 0
               /\ StatusOf(n, "error") = {}
               /\ (t.steps >= 1 /\ ~NeverDone(t.steps)) =>
                     /\ t.currentStep <= t.steps
                     /\ t.cleared <=> t.currentStep = t.steps

\* C12 witness: two requests with MaxSteps steps each have completed, and
\* their timer callbacks ran interleaved.
C12_Witness ==
    \E n, m \in DOMAIN requests :
        /\ n # m /\ HasTimer(n) /\ HasTimer(m)
        /\ intervals[n][1].steps = MaxSteps /\ intervals[m][1].steps = MaxSteps
        /\ intervals[n][1].cleared /\ intervals[m][1].cleared
        /\ \E j, l \in MessagesOf(n), k \in MessagesOf(m) : j < k /\ k < l

\* request n ended in an error response
EndedInError(n) == n \in DOMAIN requests /\ StatusOf(n, "error") # {}
\* request n has its terminal message: one success or error posted for it
HasTerminal(n) ==
    Cardinality({k \in MessagesOf(n) : IsTerminal(out[k])}) = 1
\* request n created a timer that no step count ends (C10)
Endless(n) == HasTimer(n) /\ NeverDone(intervals[n][1].steps)

\* C13: a request delivered after an earlier request has ended in an error
\* response is dispatched and gets its own terminal message (for a
\* SimulateWork request: once its timer has run its steps).
C13_NoFailureIsFatal ==
    \A n \in 2..MaxRequests :
        (/\ n \in DOMAIN requests /\ ~Endless(n)
         /\ \E m \in 1..(n - 1) : EndedInError(m))
            ~> HasTerminal(n)

\* C13 witness: after a request that ended in an error response, a later
\* SimulateWork request has run to its success.
C13_Witness ==
    \E m, n \in DOMAIN requests :
        /\ m < n /\ EndedInError(m)
        /\ HasTimer(n) /\ intervals[n][1].steps = MaxSteps /\ HasTerminal(n)

\* the SortArray requests that carry an array
Sorts == {n \in DOMAIN requests :
             requests[n].command = "sortArray" /\ Has(requests[n].data, "array")}
\* the result of the success message of request n
ResultOf(n) == out[CHOOSE k \in StatusOf(n, "success") : TRUE].result
\* the number of places of seq that hold the value x
Count(seq, x) == Cardinality({i \in DOMAIN seq : seq[i] = x})
Ascending(seq) == \A i, j \in DOMAIN seq : i < j => ~Gt(seq[i], seq[j])
Permutation(a, b) ==
    Len(a) = Len(b) /\ \A x \in SortValues : Count(a, x) = Count(b, x)
\* element by element the same numbers (as === compares them)
SameNumbers(a, b) ==
    Len(a) = Len(b) /\ \A i \in DOMAIN a : Value(a[i]) = Value(b[i])

\* C14: for every array of numbers, quick, merge and bubble each answer with
\* one success whose result is an ascending permutation of the array (same
\* length, same multiset) and the same sequence of numbers as the reference
\* ascending sort gives.
C14_SortsAgreeWithReference ==
    \A n \in Sorts :
        requests[n].data.algorithm \in {"quick", "merge", "bubble"} =>
            /\ Cardinality(StatusOf(n, "success")) = 1
            /\ Ascending(ResultOf(n))
            /\ Permutation(ResultOf(n), requests[n].data.array)
            /\ SameNumbers(ResultOf(n), nativeSort(requests[n].data.array))

\* C14 witness: an array of full length with a duplicate and out of order
\* has been sorted by quick sort.
C14_Witness ==
    \E n \in Sorts :
        /\ requests[n].data.algorithm = "quick"
        /\ Len(requests[n].data.array) = MaxArray
        /\ \E i, j \in DOMAIN requests[n].data.array :
              i < j /\ requests[n].data.array[i] = requests[n].data.array[j]
        /\ ~Ascending(requests[n].data.array)
        /\ StatusOf(n, "success") # {}

\* C15: the array of the payload holds the same elements in the same order
\* after the handler has returned as when the request was delivered, for
\* every algorithm.
C15_InputNotMutated ==
    \A n \in Sorts : after[n].array = requests[n].data.array

\* C15 witness: bubble sort has rearranged an array that was out of order.
C15_Witness ==
    \E n \in Sorts :
        /\ requests[n].data.algorithm = "bubble"
        /\ StatusOf(n, "success") # {}
        /\ ResultOf(n) # requests[n].data.array

\* the n of a Fibonacci request and the limit of a PrimeNumbers request
\* (the default where the payload has none)
NOf(n) == IF Has(requests[n].data, "n") THEN requests[n].data.n ELSE DefaultN
LimitOf(n) ==
    IF Has(requests[n].data, "limit") THEN requests[n].data.limit ELSE DefaultLimit
\* request n was answered by one error and nothing else
OnlyAnError(n) ==
    Cardinality(MessagesOf(n)) = 1 /\ Cardinality(StatusOf(n, "error")) = 1
\* request n was answered by one success, the last of its messages, and no error
Succeeded(n) ==
    /\ Cardinality(StatusOf(n, "success")) = 1
    /\ StatusOf(n, "error") = {}
    /\ \A k \in MessagesOf(n) : \A l \in StatusOf(n, "success") : k <= l

\* C16: a Fibonacci request with n outside 0..MaxN and a PrimeNumbers
\* request with limit outside MinLimit..MaxLimit get exactly one error and
\* no progress or success; with the value inside the range they get a
\* success and no error.
C16_RangeCheckedBeforeOutput ==
    \A n \in DOMAIN requests :
        /\ (requests[n].command = "fibonacci" /\ ~IsUndefined(requests[n].data)) =>
              IF NOf(n) \in 0..MaxN THEN Succeeded(n) ELSE OnlyAnError(n)
        /\ (requests[n].command = "primeNumbers" /\ ~IsUndefined(requests[n].data)) =>
              IF LimitOf(n) \in MinLimit..MaxLimit THEN Succeeded(n) ELSE OnlyAnError(n)

\* C16 witness: a PrimeNumbers request with the limit just below the range
\* has been answered.
C16_Witness ==
    \E n \in DOMAIN requests :
        /\ requests[n].command = "primeNumbers" /\ ~IsUndefined(requests[n].data)
        /\ LimitOf(n) = MinLimit - 1
        /\ MessagesOf(n) # {}

\* p has no divisor between 1 and itself
IsPrimeNumber(p) == p >= 2 /\ \A d \in 2..(p - 1) : p % d # 0

\* C17: the success of a PrimeNumbers request with limit in the accepted
\* range carries as result exactly the primes p with 2 <= p <= limit, in
\* ascending order and without duplicates, and as count their number.
C17_PrimesUpToLimit ==
    \A n \in DOMAIN requests :
        (/\ requests[n].command = "primeNumbers" /\ ~IsUndefined(requests[n].data)
         /\ LimitOf(n) \in MinLimit..MaxLimit) =>
            /\ StatusOf(n, "success") # {}
            /\ LET result == ResultOf(n)
               IN /\ {result[i] : i \in DOMAIN result}
                        = {p \in 2..LimitOf(n) : IsPrimeNumber(p)}
                  /\ \A i, j \in DOMAIN result : i < j => result[i] < result[j]
                  /\ \A k \in StatusOf(n, "success") : out[k].count = Len(result)

\* C17 witness: limit 10 has given [2, 3, 5, 7] and count 4.
C17_Witness ==
    \E n \in DOMAIN requests :
        /\ requests[n].command = "primeNumbers" /\ ~IsUndefined(requests[n].data)
        /\ LimitOf(n) = 10
        /\ \E k \in StatusOf(n, "success") :
              out[k].result = <<2, 3, 5, 7>> /\ out[k].count = 4

\* C18: a SimulateWork request with an integer steps >= 1 posts nothing in
\* its dispatch call and one progress message per run of its timer callback,
\* with currentStep 1, 2, ..., steps in that order and no more; the one with
\* currentStep = steps has progress 100 and is followed at once, in the same
\* callback run, by the single success message, which follows no other.
C18_StepsThenSuccess ==
    \A n \in DOMAIN requests :
        (HasTimer(n) /\ intervals[n][1].steps >= 1 /\ ~NeverDone(intervals[n][1].steps)) =>
            LET steps == intervals[n][1].steps
                progress == StatusOf(n, "progress")
                success == StatusOf(n, "success")
            IN /\ MessagesOf(n) = progress \cup success
               /\ Cardinality(progress) = intervals[n][1].currentStep
               /\ Cardinality(progress) <= steps
               /\ \A k \in progress :
                     out[k].currentStep = Cardinality({j \in progress : j <= k})
               /\ \A k \in progress :
                     out[k].currentStep = steps =>
                        /\ out[k].progress = 100
                        /\ k + 1 \in success
               /\ \A l \in success :
                     l - 1 \in progress /\ out[l - 1].currentStep = steps
               /\ Cardinality(success) <= 1

\* C18 witness: a request with MaxSteps steps has posted its last progress
\* message and its success.
C18_Witness ==
    \E n \in DOMAIN requests :
        /\ HasTimer(n) /\ intervals[n][1].steps = MaxSteps
        /\ Cardinality(StatusOf(n, "progress")) = MaxSteps
        /\ StatusOf(n, "success") # {}

\* the ProcessData requests whose dataset holds numbers only
NumberDatasets ==
    {n \in DOMAIN requests :
        /\ requests[n].command = "processData" /\ ~IsUndefined(requests[n].data)
        /\ \A i \in DOMAIN requests[n].data.dataset :
              requests[n].data.dataset[i].type = "number"}

\* C19: a ProcessData request with a dataset of L numbers posts progress
\* messages if and only if L > 10, and then exactly one for each index i in
\* 0..L-1 with i mod floor(L/10) = 0, in the order of the indices, carrying
\* progress = floor(100*i/L), processed = i + 1 and total = L; after them
\* (for L <= 10: alone) comes the success message.
C19_ProcessDataProgressCadence ==
    \A n \in NumberDatasets :
        LET L == Len(requests[n].data.dataset)
            due == IF L > 10 THEN {i \in 0..(L - 1) : i % (L \div 10) = 0} ELSE {}
            progress == StatusOf(n, "progress")
        IN /\ {out[k].processed - 1 : k \in progress} = due
           /\ Cardinality(progress) = Cardinality(due)
           /\ \A j, k \in progress : j < k => out[j].processed < out[k].processed
           /\ \A k \in progress :
                 /\ out[k].progress = (100 * (out[k].processed - 1)) \div L
                 /\ out[k].total = L
           /\ MessagesOf(n) = progress \cup StatusOf(n, "success")
           /\ Succeeded(n)

\* C19 witness: a dataset whose length is not a multiple of ten has been
\* processed with progress messages.
C19_Witness ==
    \E n \in NumberDatasets :
        /\ Len(requests[n].data.dataset) > 20
        /\ Len(requests[n].data.dataset) % 10 # 0
        /\ Cardinality(StatusOf(n, "progress")) > 10
        /\ StatusOf(n, "success") # {}

\* the merge sort requests that have been answered
MergeSorts ==
    {n \in Sorts : requests[n].data.algorithm = "merge" /\ StatusOf(n, "success") # {}}
\* the elements of seq that compare equal to x, in their order in seq
Ties(seq, x) == SelectSeq(seq, LAMBDA y : ~Lt(y, x) /\ ~Lt(x, y))
Reverse(seq) == [i \in 1..Len(seq) |-> seq[Len(seq) + 1 - i]]

\* C20 as stated: on a tie the merge step takes the left half's element
\* first, so the elements that compare equal keep their input order in the
\* result of merge sort.
C20_MergeSortStable ==
    \A n \in MergeSorts :
        \A x \in SortValues :
            Ties(ResultOf(n), x) = Ties(requests[n].data.array, x)

\* C20 amended: on a tie the merge step takes the right half's element
\* first, so the elements that compare equal come out of merge sort in the
\* reverse of their input order.
C20_MergeSortReversesTies ==
    \A n \in MergeSorts :
        /\ Ascending(ResultOf(n))
        /\ \A x \in SortValues :
              Ties(ResultOf(n), x) = Reverse(Ties(requests[n].data.array, x))

\* C20 witness: merge sort has answered for an array that holds 0 before -0,
\* which compare equal.
C20_Witness ==
    \E n \in MergeSorts :
        \E i, j \in DOMAIN requests[n].data.array :
            /\ i < j
            /\ requests[n].data.array[i] = 0
            /\ requests[n].data.array[j] = NegZero

====
